---- MODULE Spec2Model ----
(***************************************************************************)
(* Model of the payments-record HTTP service (app/main.py, app/models.py,  *)
(* app/core/config.py, app/payment_service.py).                            *)
(*                                                                         *)
(* Strings are tuples of one-character strings, so that emptiness,         *)
(* whitespace and length are computed.  A float is written by the decimal  *)
(* literal it is the nearest IEEE-754 double of, in thousandths; a Decimal *)
(* is exact, in hundredths.                                                *)
(***************************************************************************)
EXTENDS Integers, Sequences, FiniteSets, TLC

\* ---------------------------------------------------------------- bounds
NReq == 2          \* concurrent run: requests in flight together
NWide == 1         \* exhaustive run: requests, each with any header and body
MaxInst == 4       \* Settings objects constructed in one settings run
MaxMilli == 11000  \* amount run: largest wire amount, in thousandths

\* ------------------------------------------------------- program constants
MinOrderLen == 1
MaxOrderLen == 64
MantissaBits == 52

Reqs == 1..(IF NReq > NWide THEN NReq ELSE NWide)

\* --------------------------------------------------------------- strings
Rep(c, n) == [i \in 1..n |-> c]
IsWhitespace(s) == Len(s) > 0 /\ \A i \in 1..Len(s) : s[i] = " "

DefaultApiKey == <<"d", "e", "v", "-", "s", "e", "c", "r", "e", "t">>
KeyValues == {<<>>, <<" ">>, <<"k">>, <<"K">>}
\* the X-API-KEY header as the guard receives it: None or a string
Absent == [present |-> FALSE, value |-> <<>>]
Headers == {Absent} \cup {[present |-> TRUE, value |-> v] : v \in KeyValues}
\* values of the API_KEY environment variable; unset gives the default
EnvKeys == {<<>>, <<" ">>, <<"k">>}
EnvUnset == [set |-> FALSE, value |-> <<>>]
Envs == {EnvUnset} \cup {[set |-> TRUE, value |-> v] : v \in EnvKeys}

OrderIds == {<<>>, <<"A">>, Rep("A", MaxOrderLen), Rep("A", MaxOrderLen + 1)}
Amounts == {-1000, 0, 4, 10556}
Omitted == "omitted"
Currencies == {"USD", "EUR", Omitted}
Bodies == [order_id : OrderIds, amount : Amounts, currency : Currencies]
GoodBody == [order_id |-> <<"A">>, amount |-> 10556, currency |-> "USD"]
TinyBody == [order_id |-> <<"A">>, amount |-> 4, currency |-> "USD"]
BadBody == [order_id |-> <<>>, amount |-> 0, currency |-> "EUR"]
\* the concurrent run's requests: the right, a wrong or no key, four bodies
DeepEnv == [set |-> TRUE, value |-> <<"k">>]
DeepHeaders ==
  {Absent, [present |-> TRUE, value |-> <<"k">>], [present |-> TRUE, value |-> <<"K">>]}
LongBody == [order_id |-> Rep("B", MaxOrderLen), amount |-> 2675, currency |-> Omitted]
DeepBodies == {GoodBody, TinyBody, LongBody, BadBody}

\* the amount run's requests: the right key, any amount up to MaxMilli
AmountBodies == {[GoodBody EXCEPT !.amount = a] : a \in 0..MaxMilli}

Clients(sc) ==
  CASE sc = "wide" -> 1..NWide
    [] sc = "deep" -> 1..NReq
    [] sc = "amount" -> {1}
    [] OTHER -> {}
Inputs(sc) ==
  CASE sc = "wide" -> Headers \X Bodies
    [] sc = "deep" -> DeepHeaders \X DeepBodies
    [] OTHER -> DeepHeaders \X AmountBodies
NoBody == [order_id |-> <<>>, amount |-> 0, currency |-> Omitted]

\* ----------------------------------------------------------------- state
VARIABLES
  scenario,   \* the run: "wide" (every header and body), "deep" (concurrent
              \* requests), "amount" (every amount), "settings"
  env,        \* API_KEY in the process environment
  mainCache,  \* lru_cache of app.main.get_settings
  cfgCache,   \* lru_cache of app.core.config.get_settings
  nInst,      \* Settings objects constructed so far
  built,      \* Settings objects constructed since the last cache_clear
  guardCfg,   \* the Settings the guard's Depends(get_settings) last obtained
  helperCfg,  \* the Settings auth_headers() last obtained
  pc,         \* position of each request
  req,        \* each request as received: kind, header, body
  resp,       \* each request's response
  sess,       \* the session each request holds (0: none)
  sessions,   \* open sessions
  pending,    \* the object each request's session holds after add()
  payments,   \* committed rows of table payments, in insertion order
  nextId,     \* next primary key the store assigns
  hist,       \* steps each request has taken (history)
  writes      \* rows each request has committed (history)

settingsVars == <<env, mainCache, cfgCache, nInst, built, guardCfg, helperCfg>>
serviceVars == <<pc, req, resp, sess, sessions, pending, payments, nextId, hist, writes>>
vars == <<scenario, settingsVars, serviceVars>>

\* -------------------------------------------------------------- settings
NoSettings == [id |-> 0, API_KEY |-> <<>>]

\* Settings(): fields from the environment, else the declared default
Settings(e, n) == [id |-> n, API_KEY |-> IF e.set THEN e.value ELSE DefaultApiKey]

\* ---------------------------------------------------------------- floats
\* 2^e <= k/1000 < 2^(e+1), for k >= 1000
RECURSIVE Log2Floor(_)
Log2Floor(q) == IF q < 2 THEN 0 ELSE 1 + Log2Floor(q \div 2)

\* least j > 0 with k * 2^j >= 1000, for 0 < k < 1000
RECURSIVE ShiftUp(_, _)
ShiftUp(k, j) == IF k * 2 >= 1000 THEN j ELSE ShiftUp(k * 2, j + 1)

Exponent(k) == IF k >= 1000 THEN Log2Floor(k \div 1000) ELSE 0 - ShiftUp(k, 1)

\* (r * 2^n) mod 1000
RECURSIVE ShiftMod(_, _)
ShiftMod(r, n) == IF n = 0 THEN r ELSE ShiftMod((2 * r) % 1000, n - 1)

\* sign of (double nearest k/1000) - k/1000, k > 0: the fraction of
\* k * 2^(52-e) / 1000 that the 53-bit significand drops
FloatErr(k) ==
  LET r == ShiftMod(k % 1000, MantissaBits - Exponent(k))
  IN  IF r = 0 THEN 0 ELSE IF r < 500 THEN -1 ELSE 1

\* round(x, 2) that drops the third digit instead of rounding
RoundFloat2Trunc(k) == k \div 10

\* round(x, 2) of the double nearest k/1000, in hundredths: correctly
\* rounded from the double's exact value, exact ties to even
RoundFloat2(k) ==
  LET h == k \div 10
      d == k % 10
      s == FloatErr(k)
  IN  IF d < 5 THEN h
      ELSE IF d > 5 THEN h + 1
      ELSE IF s < 0 THEN h
      ELSE IF s > 0 THEN h + 1
      ELSE IF h % 2 = 0 THEN h ELSE h + 1

\* Decimal(str(f)) of a float with at most 2 fractional digits
DecimalOfStr(h) == [type |-> "Decimal", cents |-> h]

\* float(d) of a Decimal with 2 fractional digits
FloatOfDecimal(d) == [type |-> "float", milli |-> d.cents * 10]

\* PaymentRepository.create, the amount
CreateAmount(k) == DecimalOfStr(RoundFloat2(k))

NoDecimal == [type |-> "Decimal", cents |-> 0]
NoFloat == [type |-> "float", milli |-> 0]

\* ------------------------------------------------------------ validation
\* PaymentCreate with Field(ge=0) for the amount
ValidBodyGe(b) ==
  /\ Len(b.order_id) >= MinOrderLen
  /\ Len(b.order_id) <= MaxOrderLen
  /\ b.amount >= 0
  /\ b.currency \in {"USD", Omitted}

\* PaymentCreate: order_id 1..64 characters, amount > 0, currency "USD"
ValidBody(b) ==
  /\ Len(b.order_id) >= MinOrderLen
  /\ Len(b.order_id) <= MaxOrderLen
  /\ b.amount > 0
  /\ b.currency \in {"USD", Omitted}

\* PaymentCreate after validation: the default fills an omitted currency
Validated(b) == [b EXCEPT !.currency = IF b.currency = Omitted THEN "USD" ELSE b.currency]

\* verify_api_key raises: not x_api_key or x_api_key != cfg.API_KEY
\* (both parameters are passed by keyword, x_api_key defaults to None)
Unauthorized(h, cfg) == (~h.present) \/ h.value = <<>> \/ h.value # cfg.API_KEY

\* ------------------------------------------------------------- responses
NoPayment == [id |-> 0, order_id |-> <<>>, amount |-> NoFloat, currency |-> ""]
NoRow == [id |-> 0, order_id |-> <<>>, amount |-> NoDecimal, currency |-> ""]
NoResp == [status |-> 0, detail |-> "", payment |-> NoPayment]
Response(code, text) == [status |-> code, detail |-> text, payment |-> NoPayment]
NoReq == [kind |-> "none", header |-> Absent, body |-> NoBody]

\* ------------------------------------------------------------------ Init
SettingsInit ==
  /\ mainCache = Settings(env, 1)   \* main.py: settings = get_settings() at import
  /\ cfgCache = NoSettings
  /\ nInst = 1
  /\ built = 1
  /\ guardCfg = NoSettings
  /\ helperCfg = NoSettings

ServiceInit ==
  /\ pc = [r \in Reqs |-> "idle"]
  /\ req = [r \in Reqs |-> NoReq]
  /\ resp = [r \in Reqs |-> NoResp]
  /\ sess = [r \in Reqs |-> 0]
  /\ sessions = {}
  /\ pending = [r \in Reqs |-> NoRow]
  /\ payments = <<>>
  /\ nextId = 1
  /\ hist = [r \in Reqs |-> <<>>]
  /\ writes = [r \in Reqs |-> 0]

Init ==
  /\ scenario \in {"wide", "deep", "amount"}
  /\ env \in IF scenario = "wide" THEN Envs ELSE {DeepEnv}
  /\ SettingsInit
  /\ ServiceInit

\* ------------------------------------------------------- the HTTP surface
Step(r, name) == hist' = [hist EXCEPT ![r] = Append(@, name)]

\* POST /payments whose body is validated before the guard runs
PostPaymentsBodyFirst(r) ==
  /\ pc[r] = "idle"
  /\ r \in Clients(scenario)
  /\ \E in \in Inputs(scenario) :
     LET h == in[1]
         b == in[2]
     IN
       /\ req' = [req EXCEPT ![r] = [kind |-> "payments", header |-> h, body |-> b]]
       /\ IF ~ValidBody(b)
            THEN /\ resp' = [resp EXCEPT ![r] = Response(422, "validation error")]
                 /\ pc' = [pc EXCEPT ![r] = "done"]
            ELSE IF Unauthorized(h, mainCache)
            THEN /\ resp' = [resp EXCEPT ![r] = Response(401, "Invalid or missing API key")]
                 /\ pc' = [pc EXCEPT ![r] = "done"]
            ELSE /\ resp' = resp
                 /\ pc' = [pc EXCEPT ![r] = "get_db"]
  /\ Step(r, "guard")
  /\ UNCHANGED <<sess, sessions, pending, payments, nextId, writes>>
  /\ UNCHANGED <<scenario, settingsVars>>

\* POST /payments arrives; dependencies=[Depends(verify_api_key)] runs first
PostPayments(r) ==
  /\ pc[r] = "idle"
  /\ r \in Clients(scenario)
  /\ \E in \in Inputs(scenario) :
     LET h == in[1]
         b == in[2]
     IN
       /\ req' = [req EXCEPT ![r] = [kind |-> "payments", header |-> h, body |-> b]]
       /\ IF Unauthorized(h, mainCache)
            THEN /\ resp' = [resp EXCEPT ![r] = Response(401, "Invalid or missing API key")]
                 /\ pc' = [pc EXCEPT ![r] = "done"]
            ELSE /\ resp' = resp
                 /\ pc' = [pc EXCEPT ![r] = "get_db"]
  /\ Step(r, "guard")
  /\ UNCHANGED <<sess, sessions, pending, payments, nextId, writes>>
  /\ UNCHANGED <<scenario, settingsVars>>

\* GET /ready arrives; it has no guard
GetReady(r) ==
  /\ pc[r] = "idle"
  /\ r \in Clients(scenario)
  /\ req' = [req EXCEPT ![r] = [kind |-> "ready", header |-> Absent, body |-> NoBody]]
  /\ pc' = [pc EXCEPT ![r] = "get_db"]
  /\ UNCHANGED <<resp, sess, sessions, pending, payments, nextId, hist, writes>>
  /\ UNCHANGED <<scenario, settingsVars>>

\* GET /health
health(r) ==
  /\ pc[r] = "idle"
  /\ r \in Clients(scenario)
  /\ req' = [req EXCEPT ![r] = [kind |-> "health", header |-> Absent, body |-> NoBody]]
  /\ resp' = [resp EXCEPT ![r] = Response(200, "ok")]
  /\ pc' = [pc EXCEPT ![r] = "done"]
  /\ UNCHANGED <<sess, sessions, pending, payments, nextId, hist, writes>>
  /\ UNCHANGED <<scenario, settingsVars>>

\* SessionLocal(): a new Session object, none of the open ones
SessionLocal == CHOOSE n \in 1..(Len(pc) + 1) : n \notin sessions /\ \A m \in 1..(n - 1) : m \in sessions

\* get_db up to its yield: db = SessionLocal()
get_db(r) ==
  /\ pc[r] = "get_db"
  /\ sess' = [sess EXCEPT ![r] = SessionLocal]
  /\ sessions' = sessions \cup {SessionLocal}
  /\ pc' = [pc EXCEPT ![r] = IF req[r].kind = "payments" THEN "validate" ELSE "execute"]
  /\ Step(r, "get_db")
  /\ UNCHANGED <<req, resp, pending, payments, nextId, writes>>
  /\ UNCHANGED <<scenario, settingsVars>>

\* the body parameter payload: PaymentCreate is validated
Validate(r) ==
  /\ pc[r] = "validate"
  /\ IF ValidBody(req[r].body)
       THEN /\ pc' = [pc EXCEPT ![r] = "add"]
            /\ resp' = resp
       ELSE /\ pc' = [pc EXCEPT ![r] = "release"]
            /\ resp' = [resp EXCEPT ![r] = Response(422, "validation error")]
  /\ Step(r, "validate")
  /\ UNCHANGED <<req, sess, sessions, pending, payments, nextId, writes>>
  /\ UNCHANGED <<scenario, settingsVars>>

\* an exception leaves the handler: the host runtime answers 500
Raise(r) ==
  /\ pc' = [pc EXCEPT ![r] = "release"]
  /\ resp' = [resp EXCEPT ![r] = Response(500, "Internal Server Error")]

\* PaymentRepository.create up to db.add(obj)
Add(r) ==
  /\ pc[r] = "add"
  /\ LET data == Validated(req[r].body)
         obj == [id |-> 0, order_id |-> data.order_id,
                 amount |-> CreateAmount(data.amount), currency |-> data.currency]
     IN  \E ok \in BOOLEAN :
           IF ok THEN /\ pending' = [pending EXCEPT ![r] = obj]
                      /\ pc' = [pc EXCEPT ![r] = "commit"]
                      /\ resp' = resp
                 ELSE /\ pending' = pending
                      /\ Raise(r)
  /\ Step(r, "create")
  /\ UNCHANGED <<req, sess, sessions, payments, nextId, writes>>
  /\ UNCHANGED <<scenario, settingsVars>>

\* db.commit() that inserts the pending object twice
CommitTwice(r) ==
  /\ pc[r] = "commit"
  /\ \E ok \in BOOLEAN :
       IF ok THEN /\ payments' = payments \o <<[pending[r] EXCEPT !.id = nextId],
                                               [pending[r] EXCEPT !.id = nextId + 1]>>
                  /\ nextId' = nextId + 2
                  /\ pending' = [pending EXCEPT ![r].id = nextId]
                  /\ writes' = [writes EXCEPT ![r] = @ + 1]
                  /\ pc' = [pc EXCEPT ![r] = "refresh"]
                  /\ resp' = resp
             ELSE /\ UNCHANGED <<payments, nextId, pending, writes>>
                  /\ Raise(r)
  /\ Step(r, "commit")
  /\ UNCHANGED <<req, sess, sessions>>
  /\ UNCHANGED <<scenario, settingsVars>>

\* db.commit() against a store whose key sequence does not advance
CommitSameId(r) ==
  /\ pc[r] = "commit"
  /\ \E ok \in BOOLEAN :
       IF ok THEN /\ payments' = Append(payments, [pending[r] EXCEPT !.id = nextId])
                  /\ nextId' = nextId
                  /\ pending' = [pending EXCEPT ![r].id = nextId]
                  /\ writes' = [writes EXCEPT ![r] = @ + 1]
                  /\ pc' = [pc EXCEPT ![r] = "refresh"]
                  /\ resp' = resp
             ELSE /\ UNCHANGED <<payments, nextId, pending, writes>>
                  /\ Raise(r)
  /\ Step(r, "commit")
  /\ UNCHANGED <<req, sess, sessions>>
  /\ UNCHANGED <<scenario, settingsVars>>

\* db.commit(): the INSERT is flushed, the store assigns the primary key
Commit(r) ==
  /\ pc[r] = "commit"
  /\ \E ok \in BOOLEAN :
       IF ok THEN /\ payments' = Append(payments, [pending[r] EXCEPT !.id = nextId])
                  /\ nextId' = nextId + 1
                  /\ pending' = [pending EXCEPT ![r].id = nextId]
                  /\ writes' = [writes EXCEPT ![r] = @ + 1]
                  /\ pc' = [pc EXCEPT ![r] = "refresh"]
                  /\ resp' = resp
             ELSE /\ UNCHANGED <<payments, nextId, pending, writes>>
                  /\ Raise(r)
  /\ Step(r, "commit")
  /\ UNCHANGED <<req, sess, sessions>>
  /\ UNCHANGED <<scenario, settingsVars>>

\* the committed row with primary key i
RowOf(i) == CHOOSE row \in {payments[j] : j \in 1..Len(payments)} : row.id = i

\* PaymentRead(...) of create_payment
PaymentRead(obj) ==
  [id |-> obj.id, order_id |-> obj.order_id,
   amount |-> FloatOfDecimal(obj.amount), currency |-> obj.currency]

\* db.refresh(obj), return obj, and create_payment's response
Refresh(r) ==
  /\ pc[r] = "refresh"
  /\ \E ok \in BOOLEAN :
       IF ok THEN /\ pending' = [pending EXCEPT ![r] = RowOf(pending[r].id)]
                  /\ resp' = [resp EXCEPT ![r] =
                       [status |-> 201, detail |-> "", payment |-> PaymentRead(RowOf(pending[r].id))]]
                  /\ pc' = [pc EXCEPT ![r] = "release"]
             ELSE /\ pending' = pending
                  /\ Raise(r)
  /\ Step(r, "refresh")
  /\ UNCHANGED <<req, sess, sessions, payments, nextId, writes>>
  /\ UNCHANGED <<scenario, settingsVars>>

\* ready without its except clause: the exception leaves the handler
readyPropagates(r) ==
  /\ pc[r] = "execute"
  /\ \E ok \in BOOLEAN :
       IF ok THEN /\ resp' = [resp EXCEPT ![r] = Response(200, "ready")]
                  /\ Step(r, "executed")
             ELSE /\ resp' = [resp EXCEPT ![r] = Response(500, "Internal Server Error")]
                  /\ Step(r, "raised")
  /\ pc' = [pc EXCEPT ![r] = "release"]
  /\ UNCHANGED <<req, sess, sessions, pending, payments, nextId, writes>>
  /\ UNCHANGED <<scenario, settingsVars>>

\* ready: db.execute(select(1)), any exception becomes 503
ready(r) ==
  /\ pc[r] = "execute"
  /\ \E ok \in BOOLEAN :
       IF ok THEN /\ resp' = [resp EXCEPT ![r] = Response(200, "ready")]
                  /\ Step(r, "executed")
             ELSE /\ resp' = [resp EXCEPT ![r] = Response(503, "Database not ready")]
                  /\ Step(r, "raised")
  /\ pc' = [pc EXCEPT ![r] = "release"]
  /\ UNCHANGED <<req, sess, sessions, pending, payments, nextId, writes>>
  /\ UNCHANGED <<scenario, settingsVars>>

\* get_db without try/finally: close() runs only when no exception was thrown
CloseOnSuccess(r) ==
  /\ pc[r] = "release"
  /\ sessions' = IF resp[r].status \in {200, 201} THEN sessions \ {sess[r]} ELSE sessions
  /\ sess' = [sess EXCEPT ![r] = 0]
  /\ pc' = [pc EXCEPT ![r] = "done"]
  /\ UNCHANGED <<req, resp, pending, payments, nextId, hist, writes>>
  /\ UNCHANGED <<scenario, settingsVars>>

\* get_db after its yield: finally db.close()
Close(r) ==
  /\ pc[r] = "release"
  /\ sessions' = sessions \ {sess[r]}
  /\ sess' = [sess EXCEPT ![r] = 0]
  /\ pc' = [pc EXCEPT ![r] = "done"]
  /\ UNCHANGED <<req, resp, pending, payments, nextId, hist, writes>>
  /\ UNCHANGED <<scenario, settingsVars>>

Next ==
  \E r \in Reqs :
    \/ PostPayments(r)
    \/ GetReady(r)
    \/ health(r)
    \/ get_db(r)
    \/ Validate(r)
    \/ Add(r)
    \/ Commit(r)
    \/ Refresh(r)
    \/ ready(r)
    \/ Close(r)

Spec == Init /\ [][Next]_vars

\* -------------------------------------------------- the settings caches
\* a test's monkeypatch.setenv("API_KEY", ...), or the variable unset
SetEnv ==
  /\ \E e \in Envs : e # env /\ env' = e
  /\ UNCHANGED <<mainCache, cfgCache, nInst, built, guardCfg, helperCfg>>
  /\ UNCHANGED <<scenario, serviceVars>>

\* app.main.get_settings under lru_cache(maxsize=1), read by the guard
MainGetSettings ==
  /\ IF mainCache = NoSettings
       THEN /\ nInst < MaxInst
            /\ mainCache' = Settings(env, nInst + 1)
            /\ nInst' = nInst + 1
            /\ built' = built + 1
       ELSE UNCHANGED <<mainCache, nInst, built>>
  /\ guardCfg' = mainCache'
  /\ UNCHANGED <<env, cfgCache, helperCfg>>
  /\ UNCHANGED <<scenario, serviceVars>>

\* app.core.config.get_settings under lru_cache(maxsize=1), read by
\* auth_headers() of the tests
ConfigGetSettings ==
  /\ IF cfgCache = NoSettings
       THEN /\ nInst < MaxInst
            /\ cfgCache' = Settings(env, nInst + 1)
            /\ nInst' = nInst + 1
            /\ built' = built + 1
       ELSE UNCHANGED <<cfgCache, nInst, built>>
  /\ helperCfg' = cfgCache'
  /\ UNCHANGED <<env, mainCache, guardCfg>>
  /\ UNCHANGED <<scenario, serviceVars>>

\* get_settings.cache_clear() of the client fixture: app.core.config's cache
ConfigCacheClear ==
  /\ cfgCache' = NoSettings
  /\ built' = 0
  /\ guardCfg' = NoSettings
  /\ helperCfg' = NoSettings
  /\ UNCHANGED <<env, mainCache, nInst>>
  /\ UNCHANGED <<scenario, serviceVars>>

InitSettings ==
  /\ scenario = "settings"
  /\ env \in Envs
  /\ SettingsInit
  /\ ServiceInit

NextSettings ==
  \/ SetEnv
  \/ MainGetSettings
  \/ ConfigGetSettings
  \/ ConfigCacheClear

SpecSettings == InitSettings /\ [][NextSettings]_vars

\* ================================================================ claims
Done(r) == pc[r] = "done"
IsPayments(r) == req[r].kind = "payments"
ConfiguredKey == mainCache.API_KEY
Rows == {payments[i] : i \in 1..Len(payments)}
Has(h, name) == \E i \in 1..Len(h) : h[i] = name
IsPrefix(a, b) == Len(a) <= Len(b) /\ \A i \in 1..Len(a) : a[i] = b[i]

\* a header the guard is documented to refuse: absent, empty,
\* whitespace-only, or different from the configured key
RefusedKey(h) ==
  \/ ~h.present
  \/ h.value = <<>>
  \/ IsWhitespace(h.value)
  \/ h.value # ConfiguredKey

\* a key that is missing or is not the configured one
WrongKey(h) == (~h.present) \/ h.value = <<>> \/ h.value # ConfiguredKey

\* a body the schema is documented to refuse
RefusedBody(b) ==
  \/ b.amount <= 0
  \/ b.currency \notin {"USD", Omitted}
  \/ Len(b.order_id) < 1
  \/ Len(b.order_id) > 64

Unauthorized401 == Response(401, "Invalid or missing API key")

\* C1: a POST /payments whose X-API-KEY is absent, empty, whitespace-only or
\* not exactly the configured key ends 401 "Invalid or missing API key" and
\* adds no row, whatever key is configured.
C1_RefusedKeyIs401 ==
  \A r \in Reqs :
    (IsPayments(r) /\ RefusedKey(req[r].header))
      => (Done(r) /\ resp[r] = Unauthorized401 /\ writes[r] = 0)

\* C2: a POST /payments that passed the guard with amount <= 0, a currency
\* other than "USD" or an order_id outside 1..64 characters ends 422, never
\* invokes the repository's create and never writes to the store.
C2_InvalidBodyIs422 ==
  \A r \in Reqs :
    (IsPayments(r) /\ resp[r] # Unauthorized401 /\ RefusedBody(req[r].body))
      => /\ ~Has(hist[r], "create")
         /\ writes[r] = 0
         /\ pending[r] = NoRow
         /\ resp[r].status \in {0, 422}
         /\ Done(r) => resp[r].status = 422

C2_Witness ==
  \E r \in Reqs :
    /\ IsPayments(r) /\ Done(r) /\ resp[r].status = 422
    /\ ~WrongKey(req[r].header)
    /\ req[r].body.amount = 0
    /\ \E q \in Reqs : IsPayments(q) /\ Done(q) /\ resp[q].status = 201

\* decimal roundings of a positive amount in thousandths to hundredths
HalfUp(k) == (k + 5) \div 10
HalfEven(k) ==
  IF k % 10 # 5 THEN HalfUp(k)
  ELSE IF (k \div 10) % 2 = 0 THEN k \div 10 ELSE k \div 10 + 1
Abs(n) == IF n < 0 THEN 0 - n ELSE n

\* the row a 201 response reports
RowOfResp(r) == CHOOSE row \in Rows : row.id = resp[r].payment.id

\* C3 as stated: the stored and the returned amount of an accepted request
\* are the input rounded to 2 fractional digits, under either of the
\* decimal rounding rules the data model names (half-up, half-even).
C3_DecimalRounding ==
  \A r \in Reqs :
    (IsPayments(r) /\ resp[r].status = 201)
      => /\ \E row \in Rows : row.id = resp[r].payment.id
         /\ RowOfResp(r).amount.cents \in {HalfUp(req[r].body.amount), HalfEven(req[r].body.amount)}
         /\ resp[r].payment.amount = [type |-> "float", milli |-> 10 * RowOfResp(r).amount.cents]

\* C3 amended: the stored amount is a hundredth nearest to the input (the
\* nearest one off a half-cent boundary, either neighbour on it), and the
\* returned amount is the float of the stored amount.
C3_NearestHundredth ==
  \A r \in Reqs :
    (IsPayments(r) /\ resp[r].status = 201)
      => /\ \E row \in Rows : row.id = resp[r].payment.id
         /\ Abs(10 * RowOfResp(r).amount.cents - req[r].body.amount) <= 5
         /\ RowOfResp(r).amount.type = "Decimal"
         /\ resp[r].payment.amount = [type |-> "float", milli |-> 10 * RowOfResp(r).amount.cents]

C3_Witness ==
  \E r \in Reqs :
    /\ IsPayments(r) /\ resp[r].status = 201
    /\ req[r].body.amount = 10556
    /\ resp[r].payment.amount.milli = 10560
    /\ \E row \in Rows : row.id = resp[r].payment.id /\ row.amount.cents = 1056

\* C4: every persisted row has an amount strictly greater than 0.
C4_StoredPositive == \A row \in Rows : row.amount.cents > 0

StepsOfCreate == <<"guard", "get_db", "validate", "create", "commit", "refresh">>

\* C5: a POST /payments ends 401, 422, in a store failure or 201; the guard
\* decides before the body is validated and validation before the
\* repository's create: a wrong key ends 401 whatever the body, a right key
\* with an invalid body ends 422 before any store write.
C5_OrderOfChecks ==
  \A r \in Reqs :
    IsPayments(r) =>
      /\ IsPrefix(hist[r], StepsOfCreate)
      /\ Done(r) =>
           /\ resp[r].status \in {401, 422, 500, 201}
           /\ WrongKey(req[r].header)
                => (resp[r].status = 401 /\ hist[r] = <<"guard">>)
           /\ (~WrongKey(req[r].header) /\ RefusedBody(req[r].body))
                => (resp[r].status = 422 /\ hist[r] = <<"guard", "get_db", "validate">>
                      /\ writes[r] = 0)
           /\ (~WrongKey(req[r].header) /\ ~RefusedBody(req[r].body))
                => (resp[r].status \in {201, 500} /\ Has(hist[r], "create"))

C5_Witness ==
  \E r \in Reqs :
    /\ IsPayments(r) /\ Done(r)
    /\ WrongKey(req[r].header) /\ RefusedBody(req[r].body)
    /\ resp[r].status = 401

Holders == {r \in Reqs : sess[r] # 0}

\* C6: a request that acquires a session holds one no other in-flight
\* request holds, and the session is closed when the request is done, on
\* every path; once no request is in flight no session is open.
C6_SessionPerRequest ==
  /\ \A r1, r2 \in Holders : r1 # r2 => sess[r1] # sess[r2]
  /\ sessions = {sess[r] : r \in Holders}
  /\ \A r \in Reqs : Done(r) => sess[r] = 0
  /\ (\A r \in Reqs : pc[r] \in {"idle", "done"}) => sessions = {}

C6_Witness ==
  \E r1, r2 \in Reqs :
    /\ r1 # r2
    /\ Done(r1) /\ resp[r1].status = 500 /\ Has(hist[r1], "get_db")
    /\ sess[r2] # 0

\* C7: GET /ready answers 200 "ready" when the query succeeded and 503
\* "Database not ready" when it raised, and never writes to the store.
C7_Ready ==
  \A r \in Reqs :
    req[r].kind = "ready" =>
      /\ writes[r] = 0
      /\ pending[r] = NoRow
      /\ Has(hist[r], "executed") => resp[r] = Response(200, "ready")
      /\ Has(hist[r], "raised") => resp[r] = Response(503, "Database not ready")
      /\ Done(r) => (Has(hist[r], "executed") \/ Has(hist[r], "raised"))

C7_Witness ==
  \E r \in Reqs :
    /\ req[r].kind = "ready" /\ Done(r)
    /\ resp[r].status = 503
    /\ Len(payments) > 0

RECURSIVE SumWrites(_)
SumWrites(n) == IF n = 0 THEN 0 ELSE writes[n] + SumWrites(n - 1)

AppendOnly ==
  \/ payments' = payments
  \/ /\ Len(payments') = Len(payments) + 1
     /\ SubSeq(payments', 1, Len(payments)) = payments

\* C8 as stated: a create that returns adds exactly one row, a request
\* ending 401, 422 or in a store error adds none, and no step changes or
\* removes a persisted row.
C8_StoreErrorAddsNone ==
  /\ [](\A r \in Reqs : Done(r) =>
          /\ resp[r].status = 201 => writes[r] = 1
          /\ resp[r].status \in {401, 422, 500} => writes[r] = 0)
  /\ [][AppendOnly]_vars

\* C8 amended: as stated, but a request ending in a store error adds no row
\* when add or commit raised and exactly one when refresh raised after the
\* commit.
C8_AppendOnly ==
  /\ [](/\ Len(payments) = SumWrites(Len(pc))
        /\ \A r \in Reqs : Done(r) =>
             /\ resp[r].status = 201 => writes[r] = 1
             /\ resp[r].status \in {200, 401, 422, 503} => writes[r] = 0
             /\ resp[r].status = 500 => writes[r] = IF Has(hist[r], "refresh") THEN 1 ELSE 0)
  /\ [][AppendOnly]_vars

C8_Witness ==
  \E r1, r2 \in Reqs :
    /\ Done(r1) /\ resp[r1].status = 500 /\ Has(hist[r1], "refresh")
    /\ Done(r2) /\ resp[r2].status = 201
    /\ Len(payments) = 2

\* C9: persisted payments have pairwise distinct ids, and two accepted
\* requests, also with the same order_id, get two rows with different ids.
C9_DistinctIds ==
  /\ \A i, j \in 1..Len(payments) : i # j => payments[i].id # payments[j].id
  /\ \A r \in Reqs :
       (IsPayments(r) /\ resp[r].status = 201)
         => \E row \in Rows : /\ row.id = resp[r].payment.id
                              /\ row.id > 0
                              /\ row.order_id = req[r].body.order_id
  /\ \A r1, r2 \in Reqs :
       (r1 # r2 /\ resp[r1].status = 201 /\ resp[r2].status = 201)
         => resp[r1].payment.id # resp[r2].payment.id

C9_Witness ==
  \E r1, r2 \in Reqs :
    /\ r1 # r2
    /\ Done(r1) /\ resp[r1].status = 201
    /\ Done(r2) /\ resp[r2].status = 201
    /\ req[r1].body.order_id = req[r2].body.order_id
    /\ resp[r1].payment.id # resp[r2].payment.id
    /\ Len(payments) >= 2

\* C10: between cache resets one Settings object is constructed and every
\* reader gets it, so the guard's API key is the key the other readers see.
C10_OneSettings ==
  /\ built <= 1
  /\ (guardCfg # NoSettings /\ helperCfg # NoSettings)
       => (guardCfg = helperCfg /\ guardCfg.API_KEY = helperCfg.API_KEY)

====
